---- MODULE Spec2Model ----
(***************************************************************************)
(* Model of tt_orto_wfs_bot (src/main.py): a periodic job that asks a WFS  *)
(* service for orthophoto sheets registered after a persisted watermark,   *)
(* posts a notification to a Discord webhook and advances the watermark.   *)
(*                                                                         *)
(* Dates are day numbers (ISO-8601 date strings compare like the day       *)
(* numbers they denote); a year is YearLen consecutive days.               *)
(***************************************************************************)
EXTENDS Integers, Sequences, FiniteSets

\* ------------------------------------------------------------------ bounds
MaxDay == 3
\* a year of the model: the horizon 0..MaxDay holds one change of year
YearLen == MaxDay - 1
MaxRecords == 2
MaxMsgPad == 5

\* ------------------------------------------------------- program constants
\* post_to_discord: the length over which a message is cut
MessageLimit == 2000
\* parse_date_from returns None when the state file does not exist
NoDate == -1

Days == 0..MaxDay
\* the date tried as the CLI argument: a date of the horizon's last year
ArgDates == {MaxDay}
Year(d) == d \div YearLen
Layers == (Year(0) - 1)..Year(MaxDay)

\* ---------------------------------------------------- text and attributes
Digits == <<"0", "1", "2", "3", "4", "5", "6", "7", "8", "9">>
DigitChars == {Digits[i] : i \in 1..10}
DigitVal(c) == (CHOOSE i \in 1..10 : Digits[i] = c) - 1
Unknown == <<"u", "n", "k", "n", "o", "w", "n">>

RECURSIVE int_value(_)
int_value(text) ==
  IF Len(text) = 0 THEN 0
  ELSE 10 * int_value(SubSeq(text, 1, Len(text) - 1)) + DigitVal(text[Len(text)])

\* Python's int(str): a run of decimal digits is a number, anything else raises
IsNumeral(text) == Len(text) > 0 /\ \A i \in 1..Len(text) : text[i] \in DigitChars

\* Python's str(int) for n >= 0
RECURSIVE str(_)
str(n) == IF n < 10 THEN <<Digits[n + 1]>> ELSE str(n \div 10) \o <<Digits[(n % 10) + 1]>>

FeatureCollectionTag == "{http://www.opengis.net/wfs/2.0}FeatureCollection"
ExceptionReportTag == "{http://www.opengis.net/ows/1.1}ExceptionReport"

\* el.attrib.get(name): None when the attribute is absent
Absent == [some |-> FALSE, text |-> <<>>]
Attr(text) == [some |-> TRUE, text |-> text]
AttribGet(el, name) == el.attrib[name]

IntResult(n) == [kind |-> "int", n |-> n]
NoneResult == [kind |-> "None", n |-> 0]
RaiseResult == [kind |-> "raise", n |-> 0]

\* mutant: the fallback to numberReturned is dropped
get_number_matched_no_fallback(el) ==
  IF el.tag # FeatureCollectionTag THEN RaiseResult
  ELSE LET number_matched == AttribGet(el, "numberMatched")
       IN IF number_matched.some /\ number_matched.text # <<>>
          THEN IF IsNumeral(number_matched.text)
               THEN IntResult(int_value(number_matched.text))
               ELSE RaiseResult
          ELSE NoneResult

get_number_matched_from_response(el) ==
  IF el.tag # FeatureCollectionTag THEN RaiseResult
  ELSE LET got == AttribGet(el, "numberMatched")
           number_matched == IF got.some /\ got.text = Unknown
                             THEN AttribGet(el, "numberReturned")
                             ELSE got
       IN IF number_matched.some /\ number_matched.text # <<>>
          THEN IF IsNumeral(number_matched.text)
               THEN IntResult(int_value(number_matched.text))
               ELSE RaiseResult
          ELSE NoneResult

\* the timePosition texts of every dt_pzgik element of the response
ResponseDates(el) == {m.dt_pzgik : m \in {x \in el.members : x.dt_pzgik # NoDate}}

\* mutant: the smallest registered date is taken
get_min_date_from_response(el) ==
  LET dates == ResponseDates(el)
  IN IF dates = {} THEN [raised |-> TRUE, date |-> NoDate]
     ELSE [raised |-> FALSE, date |-> CHOOSE d \in dates : \A e \in dates : d <= e]

\* max() of an empty generator raises ValueError
get_max_date_from_response(el) ==
  LET dates == ResponseDates(el)
  IN IF dates = {} THEN [raised |-> TRUE, date |-> NoDate]
     ELSE [raised |-> FALSE, date |-> CHOOSE d \in dates : \A e \in dates : e <= d]

\* mutant: the cut is made one character late
truncate_off_by_one(message) ==
  IF Len(message) > MessageLimit THEN SubSeq(message, 1, MessageLimit + 1) ELSE message

\* post_to_discord: message[:2000] when len(message) > 2000
truncate(message) ==
  IF Len(message) > MessageLimit THEN SubSeq(message, 1, MessageLimit) ELSE message

\* ------------------------------------------------------------------- state
VARIABLES
  today,          \* date.today(): the host's clock
  files,          \* last_date_<year>.txt per year: its date, or NoDate when absent
  published,      \* the service's records: <<layer, dt_pzgik, serial>>
  pc,             \* the position of the process
  phase,          \* 0 before the first layer, 1 previous year, 2 current year
  argv,           \* the CLI date argument, NoDate when not given
  yesterday,      \* line 273
  current_year,   \* line 278
  date_var,       \* main's date_var: the lower bound
  upper_bound,    \* the upper bound of the request of line 220
  result,         \* the parsed response
  number_matched, \* line 228
  new_date_str,   \* line 230
  message,        \* line 236
  plot_fp,        \* line 244: the temporary file of the plot, "png" once rendered
  outcome,        \* per phase: how the cycle ended
  error,          \* the exception that ended the process, "none" otherwise
  discord,        \* the payloads the webhook accepted during the current cycle
  pre,            \* history: files when the current cycle started
  nwrites,        \* history: writes of a state file during the current cycle
  notified,       \* history: the records of every accepted payload
  first_lower,    \* history: per layer, the lower bound of its first advance
  backdated,      \* history: a record appeared with a date before its day of publication
  inexact         \* history: the service answered with records outside the filter

vars == <<today, files, published, pc, phase, argv, yesterday, current_year,
          date_var, upper_bound, result, number_matched, new_date_str, message,
          plot_fp, outcome, error, discord, pre, nwrites, notified, first_lower,
          backdated, inexact>>

locals == <<date_var, upper_bound, result, number_matched, new_date_str, message,
            plot_fp>>
history == <<pre, nwrites, notified, first_lower, backdated, inexact>>

NoAttrib == [numberMatched |-> Absent, numberReturned |-> Absent]
NoResult == [tag |-> "", attrib |-> NoAttrib, bbox |-> FALSE, members |-> {}]

\* LAYER_NAME_TEMPLATE.format(year=...): a layer is named by its year
LayerOf(p) == IF p = 1 THEN current_year - 1 ELSE current_year

Init ==
  /\ today = 1
  /\ \E seed \in {NoDate, 0} :
       files = [y \in Layers |-> IF y <= Year(0) THEN seed ELSE NoDate]
  /\ published = {}
  /\ pc = "idle"
  /\ phase = 0
  /\ argv = NoDate
  /\ yesterday = NoDate
  /\ current_year = 0
  /\ date_var = NoDate
  /\ upper_bound = NoDate
  /\ result = NoResult
  /\ number_matched = NoneResult
  /\ new_date_str = NoDate
  /\ message = <<>>
  /\ plot_fp = "empty"
  /\ outcome = [p \in 1..2 |-> "NotStarted"]
  /\ error = "none"
  /\ discord = <<>>
  /\ pre = files
  /\ nwrites = 0
  /\ notified = {}
  /\ first_lower = [y \in Layers |-> NoDate]
  /\ backdated = FALSE
  /\ inexact = FALSE

\* ------------------------------------------------------------- environment
\* the host's clock advances
\* The process reads the clock at lines 273 and 223 only: a step of the clock
\* taken elsewhere commutes with the steps of the process, and is taken between
\* two runs or before a request.
Observable == pc \in {"idle", "request"}

Tick ==
  /\ Observable
  /\ today < MaxDay
  /\ today' = today + 1
  /\ UNCHANGED <<files, published, pc, phase, argv, yesterday, current_year,
                 locals, outcome, error, discord, history>>

\* The service publishes one more sheet: registered today, or registered
\* yesterday and published a day late, on the layer of that year or of the year
\* before (the two layers a run watches). A run reads the service once per layer,
\* and its two layers differ: a publication during a run is seen as one before
\* or after it, and is taken between two runs.
Publish ==
  /\ pc = "idle"
  /\ Cardinality(published) < MaxRecords
  /\ \E d \in {today - 1, today}, back \in 0..1 :
       LET layer == Year(d) - back
           serial == Cardinality({r \in published : r[1] = layer /\ r[2] = d}) + 1
       IN /\ published' = published \cup {<<layer, d, serial>>}
          /\ backdated' = (backdated \/ d < today)
  /\ UNCHANGED <<today, files, pc, phase, argv, yesterday, current_year, locals,
                 outcome, error, discord, pre, nwrites, notified, first_lower,
                 inexact>>

\* mutant: the filter lets the lower bound itself through
MatchingFromLowerBound(layer, lower, upper) ==
  {r \in published : r[1] = layer /\ lower <= r[2] /\ r[2] <= upper}

\* the Filter of _get_wfs_params: lower_bound < dt_pzgik <= upper_bound
Matching(layer, lower, upper) ==
  {r \in published : r[1] = layer /\ lower < r[2] /\ r[2] <= upper}

Member(r, dated) == [rec |-> r, dt_pzgik |-> IF dated THEN r[2] ELSE NoDate]

Variants == {"matched", "unknown", "noattrs", "exception", "nodates", "nobbox",
             "unfiltered"}

\* what the service may answer to the request of a layer's cycle
Respond(variant, layer, lower, upper) ==
  LET recs == IF variant = "unfiltered"
              THEN {r \in published : r[1] = layer}
              ELSE Matching(layer, lower, upper)
      count == Attr(str(Cardinality(recs)))
  IN [tag |-> IF variant = "exception" THEN ExceptionReportTag
              ELSE FeatureCollectionTag,
      attrib |-> CASE variant = "unknown" ->
                        [numberMatched |-> Attr(Unknown), numberReturned |-> count]
                   [] variant \in {"noattrs", "exception"} -> NoAttrib
                   [] OTHER -> [numberMatched |-> count, numberReturned |-> count],
      bbox |-> variant \notin {"nobbox", "exception"},
      members |-> IF variant = "exception" THEN {}
                  ELSE {Member(r, variant # "nodates") : r \in recs}]

\* ----------------------------------------------------------------- process
ResetLocals ==
  /\ date_var' = NoDate
  /\ upper_bound' = NoDate
  /\ result' = NoResult
  /\ number_matched' = NoneResult
  /\ new_date_str' = NoDate
  /\ message' = <<>>
  /\ plot_fp' = "empty"

\* mutant: the exception is caught around main and the next layer goes on
FailCaught(err) ==
  /\ outcome' = [outcome EXCEPT ![phase] = "Failed"]
  /\ error' = err
  /\ pc' = IF phase = 1 THEN "load" ELSE "exited"
  /\ UNCHANGED <<argv, yesterday, current_year>>
  /\ ResetLocals

\* an uncaught exception ends the process
Fail(err) ==
  /\ outcome' = [outcome EXCEPT ![phase] = "Failed"]
  /\ error' = err
  /\ pc' = "exited"
  /\ UNCHANGED <<argv, yesterday, current_year>>
  /\ ResetLocals

\* main returns: the next layer's cycle, or the end of the process
Return(how) ==
  /\ outcome' = [outcome EXCEPT ![phase] = how]
  /\ error' = "none"
  /\ ResetLocals
  /\ pc' = IF phase = 1 THEN "load" ELSE "exited"
  /\ UNCHANGED <<argv, yesterday, current_year>>

\* lines 272-290: the reference date, the years, the webhook URL
Start ==
  /\ pc = "idle"
  /\ \E arg \in {NoDate} \cup ArgDates, webhook_set \in BOOLEAN :
       LET date_used == IF arg # NoDate THEN arg ELSE today - 1
       IN /\ IF webhook_set
             THEN /\ pc' = "load"
                  /\ argv' = arg
                  /\ yesterday' = today - 1
                  /\ current_year' = Year(date_used)
                  /\ error' = "none"
             ELSE /\ pc' = "exited"
                  /\ error' = "MissingWebhook"
                  /\ UNCHANGED <<argv, yesterday, current_year>>
  /\ UNCHANGED <<today, files, published, phase, locals, outcome, discord,
                 history>>

\* lines 264-269
parse_date_from(year) == files[year]

\* mutant: the stored date is ignored
date_used_ignoring_file(stored, fallback) == fallback

\* lines 295 and 301: parse_date_from(...) or yesterday
date_used_for(stored, fallback) == IF stored # NoDate THEN stored ELSE fallback

\* lines 292-296 and 298-302: the layer, its state file, the call of main
Load ==
  /\ pc = "load"
  /\ phase' = phase + 1
  /\ date_var' = date_used_for(parse_date_from(LayerOf(phase + 1)), yesterday)
  /\ pc' = "request"
  /\ discord' = <<>>
  /\ pre' = files
  /\ nwrites' = 0
  /\ UNCHANGED <<today, files, published, argv, yesterday, current_year,
                 upper_bound, result, number_matched, new_date_str, message,
                 plot_fp, outcome, error, notified, first_lower, backdated, inexact>>

\* lines 219-227: the request is built and answered, or make_request raises
Request ==
  /\ pc = "request"
  /\ \/ \E variant \in Variants :
          /\ upper_bound' = today - 1
          /\ result' = Respond(variant, LayerOf(phase), date_var, today - 1)
          /\ inexact' = (inexact \/
                {m.rec : m \in result'.members}
                   # Matching(LayerOf(phase), date_var, today - 1))
          /\ pc' = "count"
          /\ UNCHANGED <<argv, yesterday, current_year, date_var,
                         number_matched, new_date_str, message, plot_fp,
                         outcome, error>>
     \/ /\ Fail("FetchError")
        /\ UNCHANGED inexact
  /\ UNCHANGED <<today, files, published, phase, discord, pre, nwrites,
                 notified, first_lower, backdated>>

\* mutant: "if number_matched is not None", so that a count of 0 goes on
CountZeroGoesOn ==
  /\ pc = "count"
  /\ LET got == get_number_matched_from_response(result)
     IN IF got.kind = "raise" THEN Fail("ValueError")
        ELSE IF got.kind = "int"
        THEN /\ number_matched' = got
             /\ pc' = "maxdate"
             /\ UNCHANGED <<argv, yesterday, current_year, date_var, upper_bound,
                            result, new_date_str, message, plot_fp, outcome,
                            error>>
        ELSE Return("NoChange")
  /\ UNCHANGED <<today, files, published, phase, discord, history>>

\* lines 228-229 and 260-261: the matched count decides whether there is news
Count ==
  /\ pc = "count"
  /\ LET got == get_number_matched_from_response(result)
     IN IF got.kind = "raise" THEN Fail("ValueError")
        ELSE IF got.kind = "int" /\ got.n # 0
        THEN /\ number_matched' = got
             /\ pc' = "maxdate"
             /\ UNCHANGED <<argv, yesterday, current_year, date_var, upper_bound,
                            result, new_date_str, message, plot_fp, outcome,
                            error>>
        ELSE Return("NoChange")
  /\ UNCHANGED <<today, files, published, phase, discord, history>>

\* line 230
MaxDate ==
  /\ pc = "maxdate"
  /\ LET got == get_max_date_from_response(result)
     IN IF got.raised THEN Fail("MaxDateError")
        ELSE /\ new_date_str' = got.date
             /\ pc' = "convert"
             /\ UNCHANGED <<argv, yesterday, current_year, date_var, upper_bound,
                            result, number_matched, message, plot_fp, outcome,
                            error>>
  /\ UNCHANGED <<today, files, published, phase, discord, history>>

\* lines 231-242: MESSAGE_TEMPLATE.format(...), its fields in the order of the text
format_message(old_date, new_date, n, layer) ==
  <<old_date, new_date, n, layer, <<layer, old_date, new_date>>>>

\* mutant: find instead of findall, only one member becomes a feature
convert_first_member_only(el) ==
  IF el.members = {} THEN {} ELSE {CHOOSE m \in el.members : TRUE}

\* lines 111-129: one feature per member, with its dt_pzgik property
convert_response_to_geojson(el) == el.members

\* lines 231-246: the message and the GeoJSON; a response without boundedBy
\* fails the assertion of line 122
Convert ==
  /\ pc = "convert"
  /\ IF result.bbox
     THEN /\ message' = format_message(date_var, new_date_str, number_matched.n,
                                       LayerOf(phase))
          /\ pc' = "plot"
          /\ UNCHANGED <<argv, yesterday, current_year, date_var, upper_bound,
                         result, number_matched, new_date_str, plot_fp,
                         outcome, error>>
     ELSE Fail("AssertionError")
  /\ UNCHANGED <<today, files, published, phase, discord, history>>

\* mutant: a failed rendering is caught and the notification goes without image
PlotDegrades ==
  /\ pc = "plot"
  /\ \E rendered \in {"png", "empty"} :
       /\ plot_fp' = rendered
       /\ pc' = "post"
       /\ UNCHANGED <<argv, yesterday, current_year, date_var, upper_bound,
                      result, number_matched, new_date_str, message, outcome,
                      error>>
  /\ UNCHANGED <<today, files, published, phase, discord, history>>

\* line 247: generate_plot returns or raises; nothing catches what it raises
Plot ==
  /\ pc = "plot"
  /\ \/ /\ plot_fp' = "png"
        /\ pc' = "post"
        /\ UNCHANGED <<argv, yesterday, current_year, date_var, upper_bound,
                       result, number_matched, new_date_str, message, outcome,
                       error>>
     \/ Fail("PlotError")
  /\ UNCHANGED <<today, files, published, phase, discord, history>>

\* lines 206-212: the payload handed to the webhook
post_to_discord(text, geojson, plot) ==
  [content |-> truncate(text), file |-> geojson, image |-> plot]

\* mutant: raise_for_status is not called, a refused payload goes unnoticed
PostIgnoresStatus ==
  /\ pc = "post"
  /\ \/ /\ discord' = Append(discord,
                             post_to_discord(message, convert_response_to_geojson(result),
                                             plot_fp))
        /\ notified' = notified \cup {m.rec : m \in convert_response_to_geojson(result)}
     \/ UNCHANGED <<discord, notified>>
  /\ pc' = "write"
  /\ UNCHANGED <<argv, yesterday, current_year, locals, outcome, error>>
  /\ UNCHANGED <<today, files, published, phase, pre, nwrites, first_lower,
                 backdated, inexact>>

\* lines 250-257 and 213: the webhook accepts the payload, or raise_for_status raises
Post ==
  /\ pc = "post"
  /\ \/ /\ discord' = Append(discord,
                             post_to_discord(message, convert_response_to_geojson(result),
                                             plot_fp))
        /\ notified' = notified \cup {m.rec : m \in convert_response_to_geojson(result)}
        /\ pc' = "write"
        /\ UNCHANGED <<argv, yesterday, current_year, locals, outcome, error>>
     \/ /\ Fail("DeliveryError")
        /\ UNCHANGED <<discord, notified>>
  /\ UNCHANGED <<today, files, published, phase, pre, nwrites, first_lower,
                 backdated, inexact>>

\* lines 258-259: state_file.write_text(new_date_str)
Write ==
  /\ pc = "write"
  /\ files' = [files EXCEPT ![LayerOf(phase)] = new_date_str]
  /\ nwrites' = nwrites + 1
  /\ first_lower' = IF first_lower[LayerOf(phase)] = NoDate
                    THEN [first_lower EXCEPT ![LayerOf(phase)] = date_var]
                    ELSE first_lower
  /\ Return("Advanced")
  /\ UNCHANGED <<today, published, phase, discord, pre, notified, backdated,
                 inexact>>

\* line 304, or the exception that nothing caught: the process is gone, and
\* the next run starts from the files alone
Exit ==
  /\ pc = "exited"
  /\ pc' = "idle"
  /\ phase' = 0
  /\ argv' = NoDate
  /\ yesterday' = NoDate
  /\ current_year' = 0
  /\ outcome' = [p \in 1..2 |-> "NotStarted"]
  /\ error' = "none"
  /\ discord' = <<>>
  /\ pre' = files
  /\ nwrites' = 0
  /\ UNCHANGED <<today, files, published, locals, notified, first_lower,
                 backdated, inexact>>

Next ==
  \/ Tick
  \/ Publish
  \/ Start
  \/ Load
  \/ Request
  \/ Count
  \/ MaxDate
  \/ Convert
  \/ Plot
  \/ Post
  \/ Write
  \/ Exit

Spec == Init /\ [][Next]_vars

\* ------------------------------------------ the matched count, on its own
\* a process that has just received a response: everything but the response
\* is as a first run finds it
Fresh ==
  /\ today = 1
  /\ files = [y \in Layers |-> NoDate]
  /\ published = {}
  /\ phase = 1
  /\ argv = NoDate
  /\ yesterday = 0
  /\ current_year = 0
  /\ date_var = 0
  /\ upper_bound = 0
  /\ number_matched = NoneResult
  /\ new_date_str = NoDate
  /\ outcome = [p \in 1..2 |-> "NotStarted"]
  /\ error = "none"
  /\ discord = <<>>
  /\ pre = files
  /\ nwrites = 0
  /\ notified = {}
  /\ first_lower = [y \in Layers |-> NoDate]
  /\ backdated = FALSE
  /\ inexact = FALSE

\* the attribute values tried: absent, empty, "unknown", and numerals
AttrValues ==
  {Absent, Attr(<<>>), Attr(Unknown), Attr(<<"0">>), Attr(<<"5">>),
   Attr(<<"4", "2">>), Attr(<<"0", "7">>)}

TestResponses ==
  [tag : {FeatureCollectionTag, ExceptionReportTag},
   attrib : [numberMatched : AttrValues, numberReturned : AttrValues],
   bbox : {TRUE},
   members : {{}}]

InitCount ==
  /\ Fresh
  /\ pc = "count"
  /\ result \in TestResponses
  /\ message = <<>>
  /\ plot_fp = "empty"

\* line 228 alone: number_matched = _get_number_matched_from_response(el=result)
ApplyCount ==
  /\ pc = "count"
  /\ number_matched' = get_number_matched_from_response(result)
  /\ pc' = "counted"
  /\ UNCHANGED <<today, files, published, phase, argv, yesterday, current_year,
                 date_var, upper_bound, result, new_date_str, message, plot_fp,
                 outcome, error, discord, history>>

SpecCount == InitCount /\ [][ApplyCount]_vars

\* ------------------------------------------------ the webhook, on its own
\* the characters of the messages tried
TestChar(i, k) == Digits[((i * k) % 10) + 1]
TestLengths ==
  (0..MaxMsgPad) \cup {1500, 2500}
    \cup {MessageLimit + j - MaxMsgPad : j \in 0..(2 * MaxMsgPad)}
TestMessages == {[i \in 1..n |-> TestChar(i, k)] : n \in TestLengths, k \in 1..MaxMsgPad}

InitNotify ==
  /\ Fresh
  /\ pc = "post"
  /\ result = NoResult
  /\ message \in TestMessages
  /\ plot_fp = "png"

SpecNotify == InitNotify /\ [][Post]_vars

\* ------------------------------------------------------------ the claims
\* the layer of the cycle that is running or has just ended
Layer == LayerOf(phase)
\* the watermark the cycle started from: the stored date, yesterday without one
OldDate == IF pre[Layer] # NoDate THEN pre[Layer] ELSE yesterday
Terminal == {"NoChange", "Advanced", "Failed"}
MaxOf(dates) == CHOOSE d \in dates : \A e \in dates : e <= d

\* C1: in a cycle the watermark file is written at most once and only after
\* the webhook accepted the notification; a cycle ended by an error (fetch,
\* parsing, count or maximum date, artifacts, delivery) leaves every layer's
\* file as it was when the cycle started.
C1_WriteOnceAfterDelivery ==
  /\ nwrites <= 1
  /\ nwrites = 1 => Len(discord) = 1
  /\ files # pre => nwrites = 1
  /\ error \in {"FetchError", "ValueError", "MaxDateError", "AssertionError",
                "DeliveryError"}
       => (phase >= 1 /\ outcome[phase] = "Failed")
  /\ (phase >= 1 /\ outcome[phase] = "Failed") => (files = pre /\ nwrites = 0)

\* the first layer advanced, then the delivery of the second layer failed
C1_Witness ==
  /\ pc = "exited"
  /\ phase = 2
  /\ outcome[1] = "Advanced"
  /\ error = "DeliveryError"
  /\ files = pre

\* C2: a matched count of 0 or none ends the cycle with no payload sent and no
\* file written, each time the cycle meets such a response.
C2_ZeroMatchStep ==
  (pc = "count"
     /\ get_number_matched_from_response(result) \in {NoneResult, IntResult(0)})
  => /\ outcome'[phase] = "NoChange"
     /\ files' = files
     /\ discord' = <<>>
     /\ nwrites' = 0
     /\ notified' = notified

C2_NoChangeState ==
  (phase >= 1 /\ outcome[phase] = "NoChange")
  => (files = pre /\ discord = <<>> /\ nwrites = 0)

C2_ZeroMatchIsNoOp == [][C2_ZeroMatchStep]_vars /\ []C2_NoChangeState

\* both cycles of a run over a seeded watermark ended without change
C2_Witness ==
  /\ pc = "exited"
  /\ phase = 2
  /\ outcome[1] = "NoChange"
  /\ outcome[2] = "NoChange"
  /\ pre[Layer] # NoDate
  /\ files = pre

\* C3 as stated: after a fatal error in the first layer's cycle the second
\* layer's cycle is still started and reaches a terminal state of its own.
C3_Original ==
  (pc = "exited" /\ outcome[1] = "Failed") => outcome[2] \in Terminal

\* C3 as the code has it: a fatal error in the first layer's cycle ends the
\* process; the second layer's cycle is never started and no file is written.
C3_FirstFailureEndsRun ==
  outcome[1] = "Failed"
  => (pc = "exited" /\ phase = 1 /\ outcome[2] = "NotStarted" /\ files = pre)

C3_Witness ==
  /\ pc = "exited"
  /\ outcome[1] = "Failed"
  /\ outcome[2] = "NotStarted"
  /\ error = "FetchError"

\* C4 as stated: a failed plot rendering does not abort the cycle.
C4_Original ==
  (pc = "exited" /\ phase >= 1 /\ error = "PlotError") => outcome[phase] # "Failed"

\* C4 as the code has it: a failed plot rendering ends the cycle as any other
\* error does, with no payload sent and no file written; every payload the
\* webhook accepts carries the rendered image.
C4_PlotFailureAborts ==
  /\ error = "PlotError"
       => (phase >= 1 /\ outcome[phase] = "Failed" /\ discord = <<>>
           /\ files = pre /\ nwrites = 0)
  /\ \A i \in 1..Len(discord) : discord[i].image = "png"

C4_Witness ==
  /\ pc = "exited"
  /\ error = "PlotError"
  /\ outcome[phase] = "Failed"
  /\ pre[Layer] # NoDate

\* a record whose date the layer's watermark has passed over: after the lower
\* bound of the layer's first advance, at or before its current watermark
Passed(r) ==
  /\ first_lower[r[1]] # NoDate
  /\ first_lower[r[1]] < r[2]
  /\ r[2] <= files[r[1]]

AllPassedNotified == \A r \in published : Passed(r) => r \in notified

\* C5 as stated, and granted a service that answers every request with exactly
\* the records matching its filter: every record in a date range the watermark
\* has passed over is in an accepted notification.
C5_Original == ~inexact => AllPassedNotified

\* C5 with what it rests on: as long as the service answers each request with
\* exactly the records matching its filter and publishes no record dated
\* before its day of publication, every record in a date range the watermark
\* has passed over is in an accepted notification.
C5_NoRecordSkipped == (~backdated /\ ~inexact) => AllPassedNotified

\* two records of one layer, both passed over and both notified
C5_Witness ==
  /\ ~backdated
  /\ ~inexact
  /\ \E r, q \in published :
       /\ r # q
       /\ r[1] = q[1]
       /\ Passed(r) /\ Passed(q)
       /\ {r, q} \subseteq notified

\* C6 as stated: with the argument R and no watermark file, the query runs
\* from R minus one day to R minus one day.
C6_Original ==
  (pc = "count" /\ argv # NoDate /\ pre[Layer] = NoDate)
  => (date_var = argv - 1 /\ upper_bound = argv - 1)

\* C6 as the code has it: R only selects the years of the two layers; the
\* upper bound is always the day before the request, the lower bound is the
\* stored watermark, or without one the day before the start of the run.
C6_QueryBounds ==
  pc = "count"
  => /\ upper_bound = today - 1
     /\ current_year = Year(IF argv # NoDate THEN argv ELSE yesterday)
     /\ IF pre[Layer] # NoDate
        THEN date_var = pre[Layer]
        ELSE date_var = yesterday /\ yesterday <= upper_bound

\* a query of a layer without file, under an argument that is not tomorrow
C6_Witness ==
  /\ pc = "count"
  /\ argv # NoDate
  /\ pre[Layer] = NoDate
  /\ date_var # argv - 1
  /\ date_var = upper_bound

\* C7: a cycle that advanced has written exactly the greatest dt_pzgik of the
\* response's records, and the accepted message names the old watermark and
\* that date; without any dt_pzgik the cycle fails before anything is sent or
\* written.
C7_WatermarkIsMaxDate ==
  /\ (phase >= 1 /\ outcome[phase] = "Advanced")
       => /\ Len(discord) = 1
          /\ LET dates == {f.dt_pzgik : f \in discord[1].file} \ {NoDate}
             IN /\ dates # {}
                /\ files[Layer] = MaxOf(dates)
                /\ discord[1].content[1] = OldDate
                /\ discord[1].content[2] = MaxOf(dates)
  /\ pc \in {"convert", "plot", "post", "write"}
       => \E m \in result.members : m.dt_pzgik # NoDate
  /\ error = "MaxDateError"
       => (outcome[phase] = "Failed" /\ discord = <<>> /\ files = pre)

\* an advance over a response holding two different dates
C7_Witness ==
  /\ phase >= 1
  /\ outcome[phase] = "Advanced"
  /\ Len(discord) = 1
  /\ \E f, g \in discord[1].file : f.dt_pzgik < g.dt_pzgik
  /\ pre[Layer] # NoDate

\* the numbers the numerals tried denote
Denotes(text) ==
  CASE text = <<"0">> -> 0
    [] text = <<"5">> -> 5
    [] text = <<"4", "2">> -> 42
    [] text = <<"0", "7">> -> 7
NumeralsTried == {<<"0">>, <<"5">>, <<"4", "2">>, <<"0", "7">>}

\* C8: the matched count is the number of numberMatched when that is a
\* numeral, the number of numberReturned when numberMatched is "unknown",
\* none when the attribute used is absent, and an error whatever the
\* attributes when the root is not the WFS FeatureCollection.
C8_MatchedCount ==
  pc = "counted"
  => LET nm == result.attrib.numberMatched
         nr == result.attrib.numberReturned
     IN IF result.tag # FeatureCollectionTag
        THEN number_matched.kind = "raise"
        ELSE /\ (nm.some /\ nm.text \in NumeralsTried)
                  => number_matched = [kind |-> "int", n |-> Denotes(nm.text)]
             /\ (nm.some /\ nm.text = Unknown /\ nr.some /\ nr.text \in NumeralsTried)
                  => number_matched = [kind |-> "int", n |-> Denotes(nr.text)]
             /\ ~nm.some => number_matched.kind = "None"
             /\ (nm.some /\ nm.text = Unknown /\ ~nr.some)
                  => number_matched.kind = "None"

\* the documented example: numberMatched="unknown", numberReturned="42" gives 42
C8_Witness ==
  /\ pc = "counted"
  /\ result.tag = FeatureCollectionTag
  /\ result.attrib.numberMatched = Attr(Unknown)
  /\ result.attrib.numberReturned = Attr(<<"4", "2">>)
  /\ number_matched = [kind |-> "int", n |-> 42]

\* C9: the content handed to the webhook is the message when that has at most
\* 2000 characters and its first 2000 characters otherwise.
C9_ContentAtMost2000 ==
  pc = "write"
  => /\ Len(discord) = 1
     /\ LET content == discord[1].content
        IN /\ Len(content) <= 2000
           /\ Len(content) = (IF Len(message) > 2000 THEN 2000 ELSE Len(message))
           /\ \A i \in 1..Len(content) : content[i] = message[i]

\* the documented example: a message of 2500 characters is delivered as 2000
C9_Witness ==
  /\ pc = "write"
  /\ Len(message) = 2500
  /\ Len(discord) = 1
  /\ Len(discord[1].content) = 2000

\* C10: as long as the service has answered with records matching the filter
\* only, an advance takes the watermark from W to a W' with W < W' <= the
\* upper bound of the cycle's request, no stored watermark decreases, and the
\* lower bound of every request is at most its upper bound.
C10_AdvanceStep ==
  ~inexact
  => /\ files' # files
          => /\ pc = "write"
             /\ files'[Layer] = new_date_str
             /\ (files[Layer] # NoDate => files[Layer] = date_var)
             /\ date_var < new_date_str
             /\ new_date_str <= upper_bound
             /\ upper_bound <= today - 1
     /\ \A y \in Layers : files[y] # NoDate => files[y] <= files'[y]

C10_RequestBounds ==
  (~inexact /\ pc \in {"count", "maxdate", "convert", "plot", "post", "write"})
  => date_var <= upper_bound

C10_WatermarkMonotone == [][C10_AdvanceStep]_vars /\ []C10_RequestBounds

\* the second advance of one layer, under an exact service
C10_Witness ==
  /\ ~inexact
  /\ phase >= 1
  /\ outcome[phase] = "Advanced"
  /\ first_lower[Layer] # NoDate
  /\ first_lower[Layer] < pre[Layer]
  /\ pre[Layer] < files[Layer]

====
